---- MODULE Spec2Model ----
(***************************************************************************)
(* Model of remote_sensing/utils.py: add_ee_layer(map_widget,              *)
(* ee_image_object, vis_params, name).                                     *)
(*                                                                         *)
(* The function is a straight line of three statements (lines 21, 24-30,   *)
(* 33) with no try/except.  Its two collaborators, the Earth Engine client *)
(* (ee) and the map-widget library (folium), are not part of the           *)
(* repository: each of their answers is a nondeterministic input of the    *)
(* call (success with any value, or any of their errors).  The one thing   *)
(* assumed of folium is that add_to, when it succeeds, appends the layer   *)
(* to the widget's children under a key of its own (never the display      *)
(* name), and that when it raises it has not attached the layer.           *)
(***************************************************************************)
EXTENDS Integers, Sequences, FiniteSets, TLC

VARIABLES
    children,   \* map widget -> sequence of the layers attached to it
    initial,    \* map widget -> the layers it held before any call (history)
    succeeded,  \* map widget -> number of calls on it that returned (history)
    prev,       \* `children' as it was when the last call started (history)
    last,       \* the last call: its arguments as the caller passed them,
                \* the collaborators' answers, the caller's mapping afterwards
    outcome,    \* how the last call ended: returned None, or raised an error
    requests,   \* the requests the last call sent to the imagery service
    events      \* the collaborator calls the last call made, in order

vars == <<children, initial, succeeded, prev, last, outcome, requests, events>>

----------------------------------------------------------------------------
(* Bounds of the model *)

\* Calls are made while fewer layers than this have been added in all.
MaxAdded == 2

----------------------------------------------------------------------------
(* Values *)

Widgets == {"m1", "m2"}

\* A caller can pass an ee.Image, or (Python checks no annotation) an asset
\* id that ee.Image() loads.
Images ==
    { [type |-> "Image",  ref |-> "L8"],
      [type |-> "String", ref |-> "S2"] }

\* A visualization mapping is a set of <<key, value>> pairs.
EmptyVis == {}
BandVis  == { <<"min", 0>>, <<"max", 3000>> }
VisParams == { EmptyVis, BandVis }

Names == {"ndvi", "rgb"}

Urls == {"https://ee/maps/a/{z}/{x}/{y}", "https://ee/maps/b/{z}/{x}/{y}"}

NoUrl == ""
NoError == ""
NotCalled == "not_called"

\* utils.py line 26
Attr == "Map Data &copy; <a href=\"https://earthengine.google.com/\">Google Earth Engine</a>"

\* The layer a folium.Map carries from its own construction.
BaseLayer ==
    [tiles |-> "openstreetmap", attr |-> "osm", name |-> "openstreetmap",
     overlay |-> FALSE, control |-> TRUE]

\* Errors, by who raises them.
ServiceErrors == {"EEException", "ConnectionError"}
CtorErrors    == {"TileLayerValueError"}
AddErrors     == {"AddToTypeError"}
LibraryErrors == CtorErrors \cup AddErrors
\* map_id_dict["tile_fetcher"] and .url_format are evaluated by add_ee_layer
\* (line 25); a response without them raises here, not in a collaborator.
LookupErrors  == {"KeyError", "AttributeError"}

\* What the imagery service can answer to getMapId: an error, a response
\* with the tile fetcher and its URL template, or a response without them.
SvcFailures ==
    { [status |-> "error", error |-> e, shape |-> "", url |-> NoUrl] :
          e \in ServiceErrors }
SvcFull ==
    { [status |-> "ok", error |-> NoError, shape |-> "full", url |-> u] :
          u \in Urls }
SvcPartial ==
    { [status |-> "ok", error |-> NoError, shape |-> s, url |-> NoUrl] :
          s \in {"no_tile_fetcher", "no_url_format"} }
SvcAnswers == SvcFailures \cup SvcFull \cup SvcPartial

CtorAnswers == {"ok"} \cup CtorErrors
AddAnswers  == {"ok"} \cup AddErrors

SvcUsable(svc) == svc.status = "ok" /\ svc.shape = "full"

\* The answers the collaborators would give to one call.  An answer the call
\* cannot come to ask for is left at "ok": it decides nothing.
Envs ==
    { [svc |-> s, ctor |-> "ok", attach |-> "ok"] :
          s \in SvcFailures \cup SvcPartial }
    \cup
    { [svc |-> s, ctor |-> c, attach |-> "ok"] :
          s \in SvcFull, c \in CtorErrors }
    \cup
    { [svc |-> s, ctor |-> "ok", attach |-> a] :
          s \in SvcFull, a \in AddAnswers }

----------------------------------------------------------------------------
(* The statements of add_ee_layer *)

Ok(v)   == [ok |-> TRUE,  value |-> v, error |-> NoError]
Err(e)  == [ok |-> FALSE, value |-> NoUrl, error |-> e]

\* ee.Image(ee_image_object), line 21: an ee.Image denotes the same image,
\* an asset id is loaded into an ee.Image of that asset.
ee_Image(image) == [type |-> "Image", ref |-> image.ref]

\* A variant of RequestOf that fills in a default for a missing key.
RequestOf_defaulted(image, vis) ==
    [image |-> ee_Image(image),
     vis |-> IF \E kv \in vis : kv[1] = "min" THEN vis
             ELSE vis \cup { <<"min", 0>> }]

\* The request of line 21: the wrapped image and vis_params as passed.
RequestOf(image, vis) == [image |-> ee_Image(image), vis |-> vis]

\* A variant of ServiceCalls that asks once more after a failure.
ServiceCalls_retry(image, vis, svc) ==
    IF svc.status = "ok" THEN << RequestOf(image, vis) >>
    ELSE << RequestOf(image, vis), RequestOf(image, vis) >>

\* The calls line 21 makes on the service: one blocking request.
ServiceCalls(image, vis, svc) == << RequestOf(image, vis) >>

\* A variant of getMapId that wraps the service's error in one of its own.
getMapId_translated(image, vis, svc) ==
    IF svc.status = "ok" THEN Ok(svc) ELSE Err("LayerError")

\* A variant of getMapId that refuses an empty mapping before asking.
getMapId_validating(image, vis, svc) ==
    IF vis = {} THEN Err("ValueError")
    ELSE IF svc.status = "ok" THEN Ok(svc) ELSE Err(svc.error)

\* Line 21: the service's answer is the statement's result; its error, if
\* any, is raised as it is.
getMapId(image, vis, svc) ==
    IF svc.status = "ok" THEN Ok(svc) ELSE Err(svc.error)

\* A variant of url_format that reads the response with a default
\* (map_id_dict.get(...)) instead of raising.
url_format_defaulted(map_id_dict) ==
    IF map_id_dict.shape = "full" THEN Ok(map_id_dict.url) ELSE Ok(NoUrl)

\* Line 25: map_id_dict["tile_fetcher"].url_format
url_format(map_id_dict) ==
    CASE map_id_dict.shape = "no_tile_fetcher" -> Err("KeyError")
      [] map_id_dict.shape = "no_url_format"   -> Err("AttributeError")
      [] OTHER                                 -> Ok(map_id_dict.url)

\* A variant of TileLayer that leaves the layer out of the layer control.
TileLayer_uncontrolled(tiles, name, ctor) ==
    IF ctor = "ok"
    THEN Ok([tiles |-> tiles, attr |-> Attr, name |-> name,
             overlay |-> TRUE, control |-> FALSE])
    ELSE Err(ctor)

\* Lines 24-30: folium.raster_layers.TileLayer(tiles=..., attr=..., name=name,
\* overlay=True, control=True); the constructor's error, if any, is raised.
TileLayer(tiles, name, ctor) ==
    IF ctor = "ok"
    THEN Ok([tiles |-> tiles, attr |-> Attr, name |-> name,
             overlay |-> TRUE, control |-> TRUE])
    ELSE Err(ctor)

\* A variant of add_to that keys the children by display name: a layer of
\* the same name is replaced.
add_to_keyed_by_name(tile_layer, layers, attach) ==
    IF attach # "ok" THEN Err(attach)
    ELSE IF \E i \in 1..Len(layers) : layers[i].name = tile_layer.name
    THEN Ok([i \in 1..Len(layers) |->
                IF layers[i].name = tile_layer.name THEN tile_layer
                ELSE layers[i]])
    ELSE Ok(Append(layers, tile_layer))

\* A variant of add_to that keeps one overlay slot: the layer takes the
\* place of the last one.
add_to_single_slot(tile_layer, layers, attach) ==
    IF attach # "ok" THEN Err(attach)
    ELSE IF Len(layers) > 0
    THEN Ok([layers EXCEPT ![Len(layers)] = tile_layer])
    ELSE Ok(Append(layers, tile_layer))

\* A variant of add_to that puts the layer under the others.
add_to_front(tile_layer, layers, attach) ==
    IF attach = "ok" THEN Ok(<<tile_layer>> \o layers) ELSE Err(attach)

\* A variant of add_to that swallows the library's failure.
add_to_swallowing(tile_layer, layers, attach) ==
    IF attach = "ok" THEN Ok(Append(layers, tile_layer)) ELSE Ok(layers)

\* Line 33: tile_layer.add_to(map_widget) appends to the widget's children;
\* its error, if any, is raised.
add_to(tile_layer, layers, attach) ==
    IF attach = "ok" THEN Ok(Append(layers, tile_layer)) ELSE Err(attach)

\* No try/except in lines 20-33: an error ends the call as it was raised.
Raise(e) == [kind |-> "raised", error |-> e, value |-> "n/a"]

\* Falling off the end of the function (-> None).
Return == [kind |-> "returned", error |-> NoError, value |-> "None"]

\* The whole call on a widget holding `layers': the layers afterwards, the
\* outcome, the requests sent, the collaborator calls made and vis_params as
\* the caller sees it afterwards.
add_ee_layer(layers, image, vis, name, env) ==
    LET reqs == ServiceCalls(image, vis, env.svc)
        ev1  == [i \in 1..Len(reqs) |-> "getMapId"]
        r1   == getMapId(image, vis, env.svc)
        r2   == url_format(r1.value)
        r3   == TileLayer(r2.value, name, env.ctor)
        r4   == add_to(r3.value, layers, env.attach)
        res(l, o, ev) ==
            [layers |-> l, outcome |-> o, requests |-> reqs, events |-> ev,
             vis |-> vis]
    IN  IF ~r1.ok THEN res(layers, Raise(r1.error), ev1)
        ELSE IF ~r2.ok THEN res(layers, Raise(r2.error), ev1)
        ELSE IF ~r3.ok
             THEN res(layers, Raise(r3.error), ev1 \o <<"TileLayer">>)
        ELSE IF ~r4.ok
             THEN res(layers, Raise(r4.error),
                      ev1 \o <<"TileLayer", "add_to">>)
        ELSE res(r4.value, Return, ev1 \o <<"TileLayer", "add_to">>)

----------------------------------------------------------------------------
(* The state machine: a caller that calls add_ee_layer again and again *)

NoCall ==
    [widget |-> "", image |-> [type |-> "", ref |-> ""], vis |-> {},
     name |-> "", env |-> [svc |-> [status |-> "", error |-> NoError,
                                    shape |-> "", url |-> NoUrl],
                           ctor |-> NotCalled, attach |-> NotCalled],
     visAfter |-> {}]

Init ==
    /\ children = [m \in Widgets |-> IF m = "m1" THEN <<BaseLayer>> ELSE << >>]
    /\ initial = children
    /\ succeeded = [m \in Widgets |-> 0]
    /\ prev = children
    /\ last = NoCall
    /\ outcome = [kind |-> "none", error |-> NoError, value |-> "n/a"]
    /\ requests = << >>
    /\ events = << >>

\* The layers added so far, over all widgets.
Added == succeeded["m1"] + succeeded["m2"]

Made(ev, op) == \E i \in 1..Len(ev) : ev[i] = op

\* The answers a call consumed: a collaborator it never reached gave none.
Consumed(env, ev) ==
    [svc    |-> env.svc,
     ctor   |-> IF Made(ev, "TileLayer") THEN env.ctor ELSE NotCalled,
     attach |-> IF Made(ev, "add_to") THEN env.attach ELSE NotCalled]

Call(m, image, vis, name, env) ==
    /\ Added < MaxAdded
    /\ LET r == add_ee_layer(children[m], image, vis, name, env)
       IN  /\ children' = [children EXCEPT ![m] = r.layers]
           /\ outcome' = r.outcome
           /\ requests' = r.requests
           /\ events' = r.events
           /\ succeeded' = [succeeded EXCEPT
                              ![m] = IF r.outcome.kind = "returned"
                                     THEN @ + 1 ELSE @]
           /\ last' = [widget |-> m, image |-> image, vis |-> vis,
                       name |-> name, env |-> Consumed(env, r.events),
                       visAfter |-> r.vis]
    /\ prev' = children
    /\ UNCHANGED initial

Next ==
    \E m \in Widgets, image \in Images, vis \in VisParams, name \in Names,
       env \in Envs : Call(m, image, vis, name, env)

Spec == Init /\ [][Next]_vars

----------------------------------------------------------------------------
(* Properties of add_ee_layer, stated of the last call made *)

Called   == outcome.kind # "none"
Returned == outcome.kind = "returned"
Raised   == outcome.kind = "raised"
W        == last.widget
Count(ev, op) == Cardinality({i \in 1..Len(ev) : ev[i] = op})
\* The layers of a widget that carry a display name.
ByName(layers, n) == {layers[i] : i \in {j \in 1..Len(layers) : layers[j].name = n}}
\* The positions of the layers earlier calls added to the widget of the
\* last call.
AddedBefore == (Len(initial[W]) + 1)..Len(prev[W])

\* C1: when the service answered with URL template T and the call added a
\* layer, that layer carries exactly T, the fixed attribution, the given
\* name, overlay = TRUE and control = TRUE.
C1_LayerCarriesTemplate ==
    (Called /\ SvcUsable(last.env.svc) /\ Len(children[W]) > Len(prev[W])) =>
        LET l == children[W][Len(children[W])]
        IN  /\ l.tiles = last.env.svc.url
            /\ l.attr = Attr
            /\ l.name = last.name
            /\ l.overlay = TRUE
            /\ l.control = TRUE

C1_Witness ==
    /\ Returned
    /\ last.env.svc.url \in Urls
    /\ Len(children[W]) = Len(prev[W]) + 1
    /\ children[W][Len(children[W])].tiles = last.env.svc.url

\* C2: every widget's layer count is its initial count plus the number of
\* calls on it that succeeded, whatever mapping and name were given.
C2_CountIsInitialPlusSucceeded ==
    \A m \in Widgets : Len(children[m]) = Len(initial[m]) + succeeded[m]

\* A second success on one widget under a name it already carries.
C2_Witness ==
    /\ Returned
    /\ succeeded[W] = 2
    /\ \E i \in AddedBefore : prev[W][i].name = last.name
    /\ Len(children[W]) = Len(initial[W]) + 2

\* C3: when the service request fails, the widget's layers are what they
\* were before the call and the call raises the service's own error.
C3_ServiceFailurePropagates ==
    (Called /\ last.env.svc.status = "error") =>
        /\ children = prev
        /\ Raised
        /\ outcome.error = last.env.svc.error

C3_Witness ==
    /\ Called
    /\ last.env.svc.status = "error"
    /\ outcome.error \in ServiceErrors
    /\ Len(children[W]) > Len(initial[W])

\* C4: after a success under name n2 on a widget to which an earlier call
\* added a layer named n1, n1 # n2, the earlier layer is where it was and as
\* it was, the new layer is another one, and each is found under its name.
C4_DistinctNamesDistinctLayers ==
    Returned =>
        \A i \in AddedBefore :
            prev[W][i].name # last.name =>
                /\ Len(children[W]) > Len(prev[W])
                /\ children[W][i] = prev[W][i]
                /\ children[W][Len(children[W])].name = last.name
                /\ prev[W][i] \in ByName(children[W], prev[W][i].name)
                /\ \E l \in ByName(children[W], last.name) :
                       l.tiles = last.env.svc.url
                /\ ByName(children[W], prev[W][i].name)
                       \cap ByName(children[W], last.name) = {}

C4_Witness ==
    /\ Returned
    /\ \E i \in AddedBefore : prev[W][i].name # last.name
    /\ Cardinality({children[W][i].name : i \in 1..Len(children[W])} \cap Names) = 2

\* C5 as stated: every error outcome is one the imagery service or the
\* map-widget library raised, and once the service accepts an empty mapping
\* the call succeeds unless the library fails.
C5_OnlyCollaboratorErrors ==
    /\ Raised => outcome.error \in ServiceErrors \cup LibraryErrors
    /\ (Called /\ last.vis = EmptyVis /\ last.env.svc.status = "ok"
           /\ outcome.error \notin LibraryErrors) => Returned

\* C5, amended: every error outcome is one the imagery service or the
\* map-widget library raised, or the lookup error of line 25 on a response
\* without the tile fetcher / URL template; no mapping, the empty one
\* included, is refused by add_ee_layer: once the service has answered with
\* a URL template and the library does not fail, the call succeeds and adds
\* the layer.
C5_NoRejectionOfMapping ==
    /\ Raised =>
          \/ last.env.svc.status = "error" /\ outcome.error = last.env.svc.error
          \/ last.env.svc \in SvcPartial /\ outcome.error \in LookupErrors
          \/ SvcUsable(last.env.svc) /\ outcome.error \in LibraryErrors
                /\ outcome.error \in {last.env.ctor, last.env.attach}
    /\ (Called /\ SvcUsable(last.env.svc)
           /\ last.env.ctor = "ok" /\ last.env.attach = "ok") =>
          /\ Returned
          /\ Len(children[W]) = Len(prev[W]) + 1

\* The service accepted an empty mapping and the call added the layer.
C5_Witness ==
    /\ Returned
    /\ last.vis = EmptyVis
    /\ requests = << [image |-> ee_Image(last.image), vis |-> {}] >>
    /\ Len(children[W]) = Len(prev[W]) + 1

\* C6: a successful call appends one layer to its widget and changes nothing
\* else: the layers already there keep their places and contents, the other
\* widgets keep theirs, the caller's mapping, image and name are as passed,
\* and the call returns None.
C6_OnlyAppends ==
    Returned =>
        /\ Len(children[W]) = Len(prev[W]) + 1
        /\ \A i \in 1..Len(prev[W]) : children[W][i] = prev[W][i]
        /\ \A m \in Widgets \ {W} : children[m] = prev[m]
        /\ last.visAfter = last.vis
        /\ outcome.value = "None"

\* A success on a widget holding layers, while the other widget holds some.
C6_Witness ==
    /\ Returned
    /\ succeeded[W] = 2
    /\ Len(prev[W]) >= 1
    /\ \E m \in Widgets \ {W} : Len(children[m]) >= 1
    /\ last.vis = BandVis

\* C7: the request sent to the service carries the caller's image and the
\* caller's mapping, key for key.
C7_RequestCarriesArguments ==
    Called =>
        /\ Len(requests) >= 1
        /\ \A i \in 1..Len(requests) :
              /\ requests[i].image.ref = last.image.ref
              /\ requests[i].vis = last.vis

C7_Witness ==
    /\ Called
    /\ last.vis = EmptyVis
    /\ last.image.type = "String"
    /\ requests[1].vis = {}
    /\ requests[1].image.ref = "S2"

\* C8: a failure of the map-widget library, in the constructor or in add_to,
\* is the outcome of the call, as it was raised.
C8_LibraryFailurePropagates ==
    /\ (Called /\ last.env.ctor \in CtorErrors) =>
          Raised /\ outcome.error = last.env.ctor
    /\ (Called /\ last.env.attach \in AddErrors) =>
          Raised /\ outcome.error = last.env.attach /\ Count(events, "add_to") = 1

C8_Witness ==
    /\ Called
    /\ last.env.attach \in AddErrors
    /\ outcome.error \in AddErrors
    /\ children = prev

\* C9: a call sends exactly one request and makes at most one add_to, the
\* request first; a failed request is not repeated and nothing follows it;
\* a successful call makes exactly one add_to, and the widget changes only
\* in a call that made one.
C9_OneRequestThenOneMutation ==
    Called =>
        /\ Len(requests) = 1
        /\ Count(events, "getMapId") = 1
        /\ events[1] = "getMapId"
        /\ Count(events, "add_to") <= 1
        /\ last.env.svc.status = "error" => events = <<"getMapId">>
        /\ Returned => Count(events, "add_to") = 1
        /\ children # prev => Made(events, "add_to")

C9_Witness ==
    /\ Called
    /\ last.env.svc.status = "error"
    /\ events = <<"getMapId">>
    /\ Len(requests) = 1

\* C10: add_to is the last thing a call does; a response without the tile
\* fetcher / URL template, or a failing TileLayer constructor, ends the call
\* in that error with the widgets' layers as they were, and no layer without
\* a URL template is ever attached.
C10_MutationIsLastStep ==
    /\ Called =>
          /\ \A i \in 1..Len(events) : events[i] = "add_to" => i = Len(events)
          /\ children # prev => Returned
    /\ (Called /\ last.env.svc \in SvcPartial) =>
          Raised /\ outcome.error \in LookupErrors /\ children = prev
    /\ (Called /\ last.env.ctor \in CtorErrors) =>
          Raised /\ children = prev /\ ~Made(events, "add_to")
    /\ \A m \in Widgets : \A i \in 1..Len(children[m]) :
          children[m][i].tiles # NoUrl

C10_Witness ==
    /\ Called
    /\ last.env.svc.shape = "no_tile_fetcher"
    /\ outcome.error = "KeyError"
    /\ Len(children[W]) > Len(initial[W])

====
